---------------------------- MODULE Spec2Model ----------------------------
(***************************************************************************)
(* Model of the token_vesting Anchor program                               *)
(* (src/anchor/programs/tokenvesting/src/lib.rs).                          *)
(*                                                                         *)
(* Accounts are kept in three maps keyed by address.  Program-derived      *)
(* addresses are modelled by their seed tuples, so that two derivations    *)
(* agree exactly when their seeds agree; the bump fields, which are a      *)
(* function of the seeds, are not stored.  Every instruction is one atomic *)
(* step: the account validation of its #[derive(Accounts)] struct, then    *)
(* the handler, then the commit of the written accounts when the handler   *)
(* returned Ok and their rollback when it returned Err.                    *)
(***************************************************************************)
EXTENDS Integers, FiniteSets, Sequences, TLC

VARIABLES
    vestingAccounts,    \* address -> VestingAccount
    employeeAccounts,   \* address -> EmployeeAccount
    tokenAccounts,      \* address -> token custody record (treasuries, ATAs)
    clock,              \* Clock::get()?.unix_timestamp
    last                \* the last instruction: its name, its result, the
                        \* employee account it was given (claim_token only)

vars == <<vestingAccounts, employeeAccounts, tokenAccounts, clock, last>>

accounts == <<vestingAccounts, employeeAccounts, tokenAccounts>>

-----------------------------------------------------------------------------
(* Bounds of the model *)

\* Width of the machine integers.  The program's i64/u64 are 64 bits wide;
\* the model keeps two's-complement arithmetic at this narrower width.
I64Bits == 21

Users == {"alice", "bob"}

\* The users who create pools.
Admins == {"alice"}

Names == {"acme", "globex"}

Mints == {"mint"}

\* The (beneficiary, company) pairs employee accounts are created for.
Grantees == {<<"alice", "acme">>, <<"bob", "acme">>, <<"alice", "globex">>}

\* The unix timestamps the clock takes, in increasing order.
Times == {50, 100, 550, 1000, 2000}

\* Amount an outside funder deposits into a treasury.
Fund == 1000

-----------------------------------------------------------------------------
(* i64 arithmetic *)

RECURSIVE Pow2(_)
Pow2(n) == IF n = 0 THEN 1 ELSE 2 * Pow2(n - 1)

Modulus == Pow2(I64Bits)

I64Max == Pow2(I64Bits - 1) - 1

I64Min == -Pow2(I64Bits - 1)

Abs(a) == IF a < 0 THEN -a ELSE a

\* The value of the residue u (0 <= u < Modulus) read as a signed integer.
AsI64(u) == IF u > I64Max THEN u - Modulus ELSE u

\* x as u64: a negative value is reinterpreted, not rejected.
AsU64(x) == x % Modulus

\* i64::saturating_sub
SaturatingSub(a, b) ==
    IF a - b > I64Max THEN I64Max
    ELSE IF a - b < I64Min THEN I64Min
    ELSE a - b

\* Whether the exact product a * b lies outside the i64 range; computed by
\* division so that the product itself is never formed.
MulOverflows(a, b) ==
    /\ a # 0
    /\ b # 0
    /\ IF (a < 0) = (b < 0)
       THEN Abs(a) > I64Max \div Abs(b)
       ELSE Abs(a) > (-I64Min) \div Abs(b)

\* (ua * ub) % Modulus for residues ua, ub, by doubling.
RECURSIVE MulMod(_, _)
MulMod(ua, ub) ==
    IF ub = 0 THEN 0
    ELSE (2 * MulMod(ua, ub \div 2) + (IF ub % 2 = 1 THEN ua ELSE 0)) % Modulus

WrappingMul(a, b) == AsI64(MulMod(a % Modulus, b % Modulus))

\* a * b on i64: the product when it fits; otherwise a panic when the build
\* has overflow checks, and the wrapped product when it has not.
Mul(a, b, overflow_checks) ==
    IF ~MulOverflows(a, b) THEN [panic |-> FALSE, val |-> a * b]
    ELSE IF overflow_checks THEN [panic |-> TRUE, val |-> 0]
    ELSE [panic |-> FALSE, val |-> WrappingMul(a, b)]

\* a / b on i64: truncation toward zero; division by zero and MIN / -1 panic
\* in every build.
Div(a, b) ==
    IF b = 0 \/ (a = I64Min /\ b = -1) THEN [panic |-> TRUE, val |-> 0]
    ELSE [panic |-> FALSE,
          val |-> IF (a < 0) = (b < 0) THEN Abs(a) \div Abs(b)
                  ELSE -(Abs(a) \div Abs(b))]

\* a + b on i64 (the += of the handler)
Add(a, b, overflow_checks) ==
    IF a + b <= I64Max /\ a + b >= I64Min THEN [panic |-> FALSE, val |-> a + b]
    ELSE IF overflow_checks THEN [panic |-> TRUE, val |-> 0]
    ELSE [panic |-> FALSE, val |-> AsI64((a + b) % Modulus)]

-----------------------------------------------------------------------------
(* Addresses *)

VestingPda(company_name) == <<"vesting_account", company_name>>

TreasuryPda(company_name) == <<"treasury_token", company_name>>

EmployeePda(beneficiary, vesting_account) ==
    <<"employee_account", beneficiary, vesting_account>>

AssociatedTokenAddress(owner, mint) == <<"associated_token", owner, mint>>

VestingAddrs == {VestingPda(n) : n \in Names}

TreasuryAddrs == {TreasuryPda(n) : n \in Names}

EmployeeAddrs == {EmployeePda(b, v) : b \in Users, v \in VestingAddrs}

TokenAddrs ==
    TreasuryAddrs \cup {AssociatedTokenAddress(u, m) : u \in Users, m \in Mints}

-----------------------------------------------------------------------------
(* Account records *)

NoVestingAccount ==
    [init |-> FALSE, owner |-> "", mint |-> "",
     treasury_token_account |-> <<>>, company_name |-> ""]

VestingAccount(owner, mint, treasury_token_account, company_name) ==
    [init |-> TRUE, owner |-> owner, mint |-> mint,
     treasury_token_account |-> treasury_token_account,
     company_name |-> company_name]

NoEmployeeAccount ==
    [init |-> FALSE, beneficiary |-> "", cliff_time |-> 0, start_time |-> 0,
     end_time |-> 0, total_amount |-> 0, total_withdrawn |-> 0,
     vesting_account |-> <<>>]

EmployeeAccount(beneficiary, vesting_account, start_time, cliff_time, end_time, total_amount) ==
    [init |-> TRUE, beneficiary |-> beneficiary, cliff_time |-> cliff_time,
     start_time |-> start_time, end_time |-> end_time,
     total_amount |-> total_amount, total_withdrawn |-> 0,
     vesting_account |-> vesting_account]

NoTokenAccount == [init |-> FALSE, mint |-> "", authority |-> <<>>, amount |-> 0]

TokenAccount(mint, authority, amount) ==
    [init |-> TRUE, mint |-> mint, authority |-> authority, amount |-> amount]

\* A wallet as the authority of a token account.
Wallet(user) == <<"wallet", user>>

-----------------------------------------------------------------------------
(* Results *)

Result(op, err, employee_account) ==
    [op |-> op, err |-> err, employee_account |-> employee_account]

\* Anchor's constraint violations: the authorization errors.
AuthorizationErrors == {"ConstraintSeeds", "ConstraintHasOne"}

\* The system program's refusal to create an account that exists.
DuplicateErrors == {"AccountAlreadyInUse"}

-----------------------------------------------------------------------------
(* The accounts as one value, as an instruction reads and writes them *)

Bank ==
    [vesting |-> vestingAccounts, employee |-> employeeAccounts,
     token |-> tokenAccounts]

Outcome(err, bank) == [err |-> err, bank |-> bank]

\* The accounts as written so far kept whatever the instruction returned.
Commit_NoRollback(bank, outcome) == outcome.bank

\* An instruction that returns Err is rolled back whole, the accounts its
\* validation created included; one that returns Ok is committed.
Commit(bank, outcome) == IF outcome.err = "Ok" THEN outcome.bank ELSE bank

-----------------------------------------------------------------------------
(* The custody subsystem: transfer_checked of the token program *)

transfer_checked(token, from, to, authority, mint, amount) ==
    IF ~token[from].init \/ ~token[to].init
    THEN [err |-> "UninitializedAccount", token |-> token]
    ELSE IF token[from].amount < amount
    THEN [err |-> "InsufficientFunds", token |-> token]
    ELSE IF token[from].mint # mint \/ token[to].mint # mint
    THEN [err |-> "MintMismatch", token |-> token]
    ELSE IF token[from].authority # authority
    THEN [err |-> "OwnerMismatch", token |-> token]
    ELSE IF from # to /\ token[to].amount + amount >= Modulus
    THEN [err |-> "Overflow", token |-> token]
    ELSE IF from = to
    THEN [err |-> "Ok", token |-> token]
    ELSE [err |-> "Ok",
          token |-> [token EXCEPT ![from].amount = @ - amount,
                                  ![to].amount = @ + amount]]

-----------------------------------------------------------------------------
(* create_vesting_account *)

\* #[derive(Accounts)] CreateVestingAccount: both accounts are init, at the
\* addresses derived from company_name; the treasury is its own authority.
CreateVestingAccount(bank, signer, mint, company_name) ==
    LET va == VestingPda(company_name)
        ta == TreasuryPda(company_name)
    IN  IF bank.vesting[va].init \/ bank.token[ta].init
        THEN Outcome("AccountAlreadyInUse", bank)
        ELSE Outcome("Ok",
                 [bank EXCEPT !.token[ta] = TokenAccount(mint, ta, 0)])

create_vesting_account(bank, signer, mint, company_name) ==
    LET va == VestingPda(company_name)
        ta == TreasuryPda(company_name)
    IN  Outcome("Ok",
            [bank EXCEPT !.vesting[va] =
                             VestingAccount(signer, mint, ta, company_name)])

-----------------------------------------------------------------------------
(* create_employee_account *)

\* The vesting account taken without has_one = owner.
HasOneOwner_Omitted(vesting, owner) == TRUE

\* vesting_account: has_one = owner
HasOneOwner(vesting, owner) == vesting.owner = owner

\* The employee account taken with init_if_needed: an account that exists
\* already is accepted and handed to the handler.
CreateEmployeeAccount_InitIfNeeded(bank, owner, beneficiary, vesting_account) ==
    LET ea == EmployeePda(beneficiary, vesting_account)
    IN  IF ~bank.vesting[vesting_account].init
        THEN Outcome("AccountNotInitialized", bank)
        ELSE IF ~HasOneOwner(bank.vesting[vesting_account], owner)
        THEN Outcome("ConstraintHasOne",
                 [bank EXCEPT !.employee[ea].init = TRUE])
        ELSE Outcome("Ok", bank)

\* #[derive(Accounts)] CreateEmployeeAccount: employee_account is init at the
\* address derived from (beneficiary, vesting_account), and init accounts
\* are created before the other accounts' constraints are checked; then
\* has_one = owner on vesting_account.
CreateEmployeeAccount(bank, owner, beneficiary, vesting_account) ==
    LET ea == EmployeePda(beneficiary, vesting_account)
    IN  IF ~bank.vesting[vesting_account].init
        THEN Outcome("AccountNotInitialized", bank)
        ELSE IF bank.employee[ea].init
        THEN Outcome("AccountAlreadyInUse", bank)
        ELSE IF ~HasOneOwner(bank.vesting[vesting_account], owner)
        THEN Outcome("ConstraintHasOne",
                 [bank EXCEPT !.employee[ea].init = TRUE])
        ELSE Outcome("Ok", bank)

create_employee_account(bank, beneficiary, vesting_account, start_time, cliff_time, end_time, total_amount) ==
    LET ea == EmployeePda(beneficiary, vesting_account)
    IN  Outcome("Ok",
            [bank EXCEPT !.employee[ea] =
                 EmployeeAccount(beneficiary, vesting_account, start_time,
                                 cliff_time, end_time, total_amount)])

-----------------------------------------------------------------------------
(* claim_token *)

\* The accounts and the argument a claim_token instruction is given.
ClaimArgs(beneficiary, employee_account, company_name, vesting_account, treasury_token_account, mint) ==
    [beneficiary |-> beneficiary, employee_account |-> employee_account,
     company_name |-> company_name, vesting_account |-> vesting_account,
     treasury_token_account |-> treasury_token_account, mint |-> mint]

\* employee_account: seeds = [b"employee_account", beneficiary, vesting_account]
EmployeeSeeds(a) ==
    a.employee_account = EmployeePda(a.beneficiary, a.vesting_account)

\* employee_account: has_one = beneficiary, has_one = vesting_account
EmployeeHasOne(employee, a) ==
    /\ employee.beneficiary = a.beneficiary
    /\ employee.vesting_account = a.vesting_account

\* vesting_account: seeds = [b"vesting_account", company_name]
VestingSeeds(a) == a.vesting_account = VestingPda(a.company_name)

\* The vesting account taken without has_one = treasury_token_account.
VestingHasOne_Omitted(vesting, a) == TRUE

\* vesting_account: has_one = treasury_token_account
VestingHasOne(vesting, a) ==
    vesting.treasury_token_account = a.treasury_token_account

\* #[derive(Accounts)] ClaimToken: employee_token_account is init_if_needed
\* at the beneficiary's associated token address, created before the
\* constraints of the other accounts are checked, in their order.
ClaimToken(bank, a) ==
    LET ata == AssociatedTokenAddress(a.beneficiary, a.mint)
        created ==
            IF bank.token[ata].init THEN bank
            ELSE [bank EXCEPT !.token[ata] =
                                  TokenAccount(a.mint, Wallet(a.beneficiary), 0)]
    IN  IF \/ ~bank.employee[a.employee_account].init
           \/ ~bank.vesting[a.vesting_account].init
           \/ ~bank.token[a.treasury_token_account].init
        THEN Outcome("AccountNotInitialized", bank)
        ELSE IF ~EmployeeSeeds(a)
        THEN Outcome("ConstraintSeeds", created)
        ELSE IF ~EmployeeHasOne(bank.employee[a.employee_account], a)
        THEN Outcome("ConstraintHasOne", created)
        ELSE IF ~VestingSeeds(a)
        THEN Outcome("ConstraintSeeds", created)
        ELSE IF ~VestingHasOne(bank.vesting[a.vesting_account], a)
        THEN Outcome("ConstraintHasOne", created)
        ELSE Outcome("Ok", created)

\* The cliff test taken against the start of the schedule.
BeforeCliff_StartTime(employee, now) == now < employee.start_time

\* if now < employee_account.cliff_time
BeforeCliff(employee, now) == now < employee.cliff_time

time_since_start(employee, now) == SaturatingSub(now, employee.start_time)

total_vesting_time(employee) ==
    SaturatingSub(employee.start_time, employee.start_time)

vested_amount(employee, now, overflow_checks) ==
    IF now >= employee.end_time
    THEN [panic |-> FALSE, val |-> employee.total_amount]
    ELSE LET product == Mul(employee.total_amount,
                            time_since_start(employee, now), overflow_checks)
         IN  IF product.panic THEN product
             ELSE Div(product.val, total_vesting_time(employee))

claimable_amount(employee, vested) ==
    SaturatingSub(vested, employee.total_amount)

\* TransferChecked { authority: ctx.accounts.beneficiary, .. }: the authority
\* the handler gives the transfer.
transfer_authority(a) == Wallet(a.beneficiary)

\* The program-derived address the handler signs the transfer for.
signer_seeds(vesting) == <<"vesting_treasury", vesting.company_name>>

\* The handler, on validated accounts.  overflow_checks is whether the build
\* checks integer overflow.
claim_token(bank, a, now, overflow_checks) ==
    LET employee == bank.employee[a.employee_account]
        vested == vested_amount(employee, now, overflow_checks)
        claimable == claimable_amount(employee, vested.val)
        transfer ==
            transfer_checked(bank.token, a.treasury_token_account,
                AssociatedTokenAddress(a.beneficiary, a.mint),
                transfer_authority(a), a.mint, AsU64(claimable))
        total == Add(employee.total_amount, claimable, overflow_checks)
    IN  IF BeforeCliff(employee, now)
        THEN Outcome("ClaimNotAvailable", bank)
        ELSE IF total_vesting_time(employee) = 0
        THEN Outcome("InvalidVestingPeriod", bank)
        ELSE IF vested.panic
        THEN Outcome("ProgramFailedToComplete", bank)
        ELSE IF claimable = 0
        THEN Outcome("NothingToClaim", bank)
        ELSE IF transfer.err # "Ok"
        THEN Outcome(transfer.err, bank)
        ELSE IF total.panic
        THEN Outcome("ProgramFailedToComplete",
                 [bank EXCEPT !.token = transfer.token])
        ELSE Outcome("Ok",
                 [bank EXCEPT !.token = transfer.token,
                              !.employee[a.employee_account].total_amount =
                                  total.val])

\* The instruction: validation, then the handler.
ClaimInstruction(bank, a, now, overflow_checks) ==
    LET validated == ClaimToken(bank, a)
    IN  IF validated.err # "Ok" THEN validated
        ELSE claim_token(validated.bank, a, now, overflow_checks)

\* The outcomes the instruction has over the builds of the program.
ClaimOutcomes(bank, a, now) ==
    {ClaimInstruction(bank, a, now, oc) : oc \in BOOLEAN}

-----------------------------------------------------------------------------
(* The state machine *)

\* The schedules and amounts create_employee_account is called with:
\* <<start_time, cliff_time, end_time, total_amount>>.
Grants ==
    { <<0, 100, 1000, 1000>>,
      <<0, 100, 1000, 0>>,
      <<0, 100, 1000, I64Max>>,
      <<0, 100, 1000, -1>>,
      <<100, 100, 100, 1000>>,
      <<1000, 100, 550, 1000>> }

Init ==
    /\ vestingAccounts = [va \in VestingAddrs |-> NoVestingAccount]
    /\ employeeAccounts = [ea \in EmployeeAddrs |-> NoEmployeeAccount]
    /\ tokenAccounts = [ta \in TokenAddrs |-> NoTokenAccount]
    /\ clock = 50
    /\ last = Result("init", "Ok", <<>>)

Write(bank) ==
    /\ vestingAccounts' = bank.vesting
    /\ employeeAccounts' = bank.employee
    /\ tokenAccounts' = bank.token

\* The clock moves on.
Tick ==
    /\ \E t \in Times : t > clock /\ clock' = t
    /\ last' = Result("tick", "Ok", <<>>)
    /\ UNCHANGED accounts

\* An outside funder moves Fund tokens into an empty treasury.
Deposit(treasury_token_account) ==
    /\ tokenAccounts[treasury_token_account].init
    /\ tokenAccounts[treasury_token_account].amount = 0
    /\ tokenAccounts' =
           [tokenAccounts EXCEPT ![treasury_token_account].amount = Fund]
    /\ last' = Result("deposit", "Ok", <<>>)
    /\ UNCHANGED <<vestingAccounts, employeeAccounts, clock>>

CreateVestingAccountInstruction(bank, signer, mint, company_name) ==
    LET validated == CreateVestingAccount(bank, signer, mint, company_name)
    IN  IF validated.err # "Ok" THEN validated
        ELSE create_vesting_account(validated.bank, signer, mint, company_name)

CreatePool(signer, mint, company_name) ==
    LET outcome == CreateVestingAccountInstruction(Bank, signer, mint, company_name)
    IN  /\ Write(Commit(Bank, outcome))
        /\ last' = Result("create_vesting_account", outcome.err, <<>>)
        /\ UNCHANGED clock

CreateEmployeeAccountInstruction(bank, owner, beneficiary, vesting_account, grant) ==
    LET validated == CreateEmployeeAccount(bank, owner, beneficiary, vesting_account)
    IN  IF validated.err # "Ok" THEN validated
        ELSE create_employee_account(validated.bank, beneficiary,
                 vesting_account, grant[1], grant[2], grant[3], grant[4])

CreateEmployeeRecord(owner, beneficiary, vesting_account, grant) ==
    LET outcome == CreateEmployeeAccountInstruction(Bank, owner, beneficiary, vesting_account, grant)
    IN  /\ Write(Commit(Bank, outcome))
        /\ last' = Result("create_employee_account", outcome.err, <<>>)
        /\ UNCHANGED clock

Claim(a) ==
    \E outcome \in ClaimOutcomes(Bank, a, clock) :
        /\ Write(Commit(Bank, outcome))
        /\ last' = Result("claim_token", outcome.err, a.employee_account)
        /\ UNCHANGED clock

ClaimInputs ==
    { ClaimArgs(b, ea, n, va, ta, m) :
        b \in Users, ea \in EmployeeAddrs, n \in Names, va \in VestingAddrs,
        ta \in TreasuryAddrs, m \in Mints }

Next ==
    \/ Tick
    \/ \E ta \in TreasuryAddrs : Deposit(ta)
    \/ \E s \in Admins, m \in Mints, n \in Names : CreatePool(s, m, n)
    \/ \E o \in Users, p \in Grantees, g \in Grants :
           CreateEmployeeRecord(o, p[1], VestingPda(p[2]), g)
    \/ \E a \in ClaimInputs : Claim(a)

Spec == Init /\ [][Next]_vars

-----------------------------------------------------------------------------
(* Vocabulary of the properties *)

Employees == {ea \in EmployeeAddrs : employeeAccounts[ea].init}

\* The claim the beneficiary of employee account ea makes on it, with every
\* account the one the records name.
HonestClaim(ea, mint) ==
    LET employee == employeeAccounts[ea]
        vesting == vestingAccounts[employee.vesting_account]
    IN  ClaimArgs(employee.beneficiary, ea, vesting.company_name,
                  employee.vesting_account, vesting.treasury_token_account, mint)

Treasury(ea) ==
    tokenAccounts[vestingAccounts[employeeAccounts[ea].vesting_account].treasury_token_account]

\* The last instruction was a claim on ea that returned err.
Claimed(ea, err) ==
    /\ last.op = "claim_token"
    /\ last.employee_account = ea
    /\ last.err = err

-----------------------------------------------------------------------------
(* C1: every employee record has 0 <= total_withdrawn <= total granted, in *)
(* every reachable state.                                                  *)

C1_WithdrawnWithinGrant ==
    \A ea \in Employees :
        /\ 0 <= employeeAccounts[ea].total_withdrawn
        /\ employeeAccounts[ea].total_withdrawn <= employeeAccounts[ea].total_amount

-----------------------------------------------------------------------------
(* C2: a claim on an employee record made before its cliff_time fails with *)
(* ClaimNotAvailable and changes no record and no custody balance.         *)

C2_BeforeCliffFails ==
    \A ea \in Employees, m \in Mints :
        clock < employeeAccounts[ea].cliff_time =>
            \A outcome \in ClaimOutcomes(Bank, HonestClaim(ea, m), clock) :
                /\ outcome.err = "ClaimNotAvailable"
                /\ Commit(Bank, outcome) = Bank

\* Such a claim was made: the last instruction is a claim before the cliff
\* that returned ClaimNotAvailable.
C2_Witness ==
    \E ea \in Employees :
        /\ Claimed(ea, "ClaimNotAvailable")
        /\ clock < employeeAccounts[ea].cliff_time
        /\ employeeAccounts[ea].total_withdrawn = 0

-----------------------------------------------------------------------------
(* C3: for a record with start_time < end_time, a claim at a time now with *)
(* cliff_time <= now < end_time computes                                   *)
(* vested = total granted * (now - start_time) / (end_time - start_time),  *)
(* truncated, transfers vested - total_withdrawn from the treasury to the  *)
(* beneficiary and leaves total_withdrawn equal to vested.                 *)

C3_LinearVesting ==
    [][\A ea \in Employees, m \in Mints :
         LET e == employeeAccounts[ea]
             a == HonestClaim(ea, m)
             ata == AssociatedTokenAddress(a.beneficiary, m)
             vested == (e.total_amount * (clock - e.start_time))
                           \div (e.end_time - e.start_time)
             claimable == vested - e.total_withdrawn
         IN  ( /\ e.start_time <= e.cliff_time
               /\ e.start_time < e.end_time
               /\ e.cliff_time <= clock
               /\ clock < e.end_time
               /\ e.total_amount >= 0
               /\ ~MulOverflows(e.total_amount, clock - e.start_time)
               /\ claimable > 0
               /\ Treasury(ea).amount >= claimable
               /\ Claim(a) )
             => /\ last'.err = "Ok"
                /\ employeeAccounts'[ea].total_withdrawn = vested
                /\ tokenAccounts'[a.treasury_token_account].amount =
                       tokenAccounts[a.treasury_token_account].amount - claimable
                /\ tokenAccounts'[ata].amount =
                       tokenAccounts[ata].amount + claimable
      ]_vars

-----------------------------------------------------------------------------
(* C4: for a record with start_time <= cliff_time <= end_time,             *)
(* start_time < end_time, a positive grant and a treasury holding at least *)
(* the unwithdrawn rest of the grant, a claim at a time now >= end_time    *)
(* succeeds and leaves total_withdrawn equal to the total granted.         *)

C4_FullyVestedClaim ==
    [][\A ea \in Employees, m \in Mints :
         LET e == employeeAccounts[ea]
         IN  ( /\ e.start_time <= e.cliff_time
               /\ e.cliff_time <= e.end_time
               /\ e.start_time < e.end_time
               /\ e.total_amount > 0
               /\ e.total_withdrawn < e.total_amount
               /\ Treasury(ea).amount >= e.total_amount - e.total_withdrawn
               /\ clock >= e.end_time
               /\ Claim(HonestClaim(ea, m)) )
             => /\ last'.err = "Ok"
                /\ employeeAccounts'[ea].total_amount = e.total_amount
                /\ employeeAccounts'[ea].total_withdrawn = e.total_amount
      ]_vars

-----------------------------------------------------------------------------
(* C5: a claim on a record made at the instant of a successful claim on    *)
(* it, and likewise a repeated claim on a record that is fully withdrawn,  *)
(* fails with NothingToClaim and transfers nothing.                        *)

C5_RepeatedClaim ==
    [][\A ea \in Employees, m \in Mints :
         LET e == employeeAccounts[ea]
         IN  ( /\ e.start_time <= e.cliff_time
               /\ e.cliff_time <= e.end_time
               /\ e.start_time < e.end_time
               /\ e.total_amount >= 0
               /\ e.cliff_time <= clock
               /\ \/ Claimed(ea, "Ok")
                  \/ e.total_withdrawn = e.total_amount
               /\ Claim(HonestClaim(ea, m)) )
             => /\ last'.err = "NothingToClaim"
                /\ UNCHANGED accounts
      ]_vars

-----------------------------------------------------------------------------
(* C6: a claim in which the employee account is not the one derived from   *)
(* (caller, pool), or its beneficiary is not the caller, or its pool is    *)
(* not the supplied pool, or the pool's treasury is not the supplied       *)
(* treasury, fails with an authorization error and changes no record and   *)
(* no balance; so a claim moves tokens only with all four in agreement.    *)

Mismatched(a) ==
    \/ a.employee_account # EmployeePda(a.beneficiary, a.vesting_account)
    \/ employeeAccounts[a.employee_account].beneficiary # a.beneficiary
    \/ employeeAccounts[a.employee_account].vesting_account # a.vesting_account
    \/ vestingAccounts[a.vesting_account].treasury_token_account
           # a.treasury_token_account

Present(a) ==
    /\ employeeAccounts[a.employee_account].init
    /\ vestingAccounts[a.vesting_account].init
    /\ tokenAccounts[a.treasury_token_account].init

\* C6: every claim on existing accounts with one of the four mismatches
\* returns an authorization error and leaves all accounts unchanged.
C6_MismatchRejected ==
    \A a \in ClaimInputs :
        (Present(a) /\ Mismatched(a)) =>
            \A outcome \in ClaimOutcomes(Bank, a, clock) :
                /\ outcome.err \in AuthorizationErrors
                /\ Commit(Bank, outcome) = Bank

\* Such a claim was made: the last instruction is a claim on an existing
\* employee account that returned an authorization error.
C6_Witness ==
    /\ last.op = "claim_token"
    /\ last.err \in AuthorizationErrors
    /\ last.employee_account \in Employees
    /\ Treasury(last.employee_account).amount = Fund

-----------------------------------------------------------------------------
(* C7: create_employee_account succeeds only when the caller is the owner  *)
(* stored in the vesting account; a call by anyone else fails with an      *)
(* authorization error and creates no employee account.                    *)

\* C7: a create_employee_account by anyone but the stored owner returns an
\* authorization error and creates no employee account.
C7_OnlyOwnerCreates ==
    [][\A o \in Users, p \in Grantees, g \in Grants :
         ( /\ vestingAccounts[VestingPda(p[2])].init
           /\ o # vestingAccounts[VestingPda(p[2])].owner
           /\ CreateEmployeeRecord(o, p[1], VestingPda(p[2]), g) )
         => /\ last'.err \in AuthorizationErrors
            /\ employeeAccounts' = employeeAccounts
      ]_vars

\* C7 as amended: create_employee_account succeeds only when the caller is
\* the owner stored in the vesting account; a call by anyone else creates
\* no employee account and fails, with an authorization error when the
\* (beneficiary, pool) pair has no employee account yet and with the
\* duplicate-account error when it has one.
C7_OnlyOwnerCreates_Amended ==
    \A o \in Users, b \in Users, va \in VestingAddrs, g \in Grants :
        vestingAccounts[va].init =>
            LET outcome == CreateEmployeeAccountInstruction(Bank, o, b, va, g)
                exists == employeeAccounts[EmployeePda(b, va)].init
            IN  /\ outcome.err = "Ok" => o = vestingAccounts[va].owner
                /\ o # vestingAccounts[va].owner =>
                       /\ Commit(Bank, outcome) = Bank
                       /\ ~exists => outcome.err \in AuthorizationErrors
                       /\ exists => outcome.err \in DuplicateErrors

\* A call by someone other than the owner was made and refused.
C7_Witness ==
    /\ last.op = "create_employee_account"
    /\ last.err \in AuthorizationErrors
    /\ \E va \in VestingAddrs :
           /\ vestingAccounts[va].init
           /\ \E u \in Users : u # vestingAccounts[va].owner

-----------------------------------------------------------------------------
(* C8: a claim that fails, whatever its error, leaves the employee         *)
(* records, the treasury balance and the beneficiary's balance unchanged:  *)
(* the transfer and the update of the record happen together or not at all.*)

-----------------------------------------------------------------------------
(* C9: a claim at a time now with cliff_time <= now < end_time, for which  *)
(* the product total granted * (now - start_time) does not fit the integer *)
(* width, fails with CalculationOverflow and transfers nothing.            *)

C9_OverflowRejected ==
    [][\A ea \in Employees, m \in Mints :
         LET e == employeeAccounts[ea]
         IN  ( /\ e.start_time <= e.cliff_time
               /\ e.cliff_time <= clock
               /\ clock < e.end_time
               /\ MulOverflows(e.total_amount, clock - e.start_time)
               /\ Claim(HonestClaim(ea, m)) )
             => /\ last'.err = "CalculationOverflow"
                /\ UNCHANGED accounts
      ]_vars

-----------------------------------------------------------------------------
(* C10: create_employee_account, called by the owner for a pair that has   *)
(* no record, rejects with InvalidSchedule, creating no record, every      *)
(* input with start_time <= cliff_time <= end_time violated or with a      *)
(* negative total; so every stored record has                              *)
(* start_time <= cliff_time <= end_time and a total >= 0.                  *)

ValidSchedule(start_time, cliff_time, end_time, total_amount) ==
    /\ start_time <= cliff_time
    /\ cliff_time <= end_time
    /\ total_amount >= 0

\* C10: the owner's create_employee_account with an invalid schedule returns
\* InvalidSchedule and creates no record; every stored record is valid.
C10_InvalidScheduleRejected ==
    [][\A o \in Users, p \in Grantees, g \in Grants :
         ( /\ vestingAccounts[VestingPda(p[2])].init
           /\ o = vestingAccounts[VestingPda(p[2])].owner
           /\ ~employeeAccounts[EmployeePda(p[1], VestingPda(p[2]))].init
           /\ ~ValidSchedule(g[1], g[2], g[3], g[4])
           /\ CreateEmployeeRecord(o, p[1], VestingPda(p[2]), g) )
         => /\ last'.err = "InvalidSchedule"
            /\ employeeAccounts' = employeeAccounts
            /\ \A ea \in EmployeeAddrs :
                   employeeAccounts'[ea].init =>
                       ValidSchedule(employeeAccounts'[ea].start_time,
                                     employeeAccounts'[ea].cliff_time,
                                     employeeAccounts'[ea].end_time,
                                     employeeAccounts'[ea].total_amount)
      ]_vars

-----------------------------------------------------------------------------
(* C11: there is at most one vesting account per company name and one      *)
(* employee account per (beneficiary, pool): create_vesting_account for a  *)
(* name that has a pool, and create_employee_account for a pair that has a *)
(* record, fail with the duplicate-account error and leave the existing    *)
(* account, its total_withdrawn included, as it was.                       *)

C11_DuplicateRejected ==
    /\ \A n \in Names :
           vestingAccounts[VestingPda(n)].init =>
               /\ vestingAccounts[VestingPda(n)].company_name = n
               /\ \A s \in Users, m \in Mints :
                      LET outcome == CreateVestingAccountInstruction(Bank, s, m, n)
                      IN  /\ outcome.err \in DuplicateErrors
                          /\ Commit(Bank, outcome) = Bank
    /\ \A b \in Users, va \in VestingAddrs :
           employeeAccounts[EmployeePda(b, va)].init =>
               /\ employeeAccounts[EmployeePda(b, va)].beneficiary = b
               /\ employeeAccounts[EmployeePda(b, va)].vesting_account = va
               /\ \A o \in Users, g \in Grants :
                      LET outcome == CreateEmployeeAccountInstruction(Bank, o, b, va, g)
                      IN  /\ outcome.err \in DuplicateErrors
                          /\ Commit(Bank, outcome) = Bank

\* A second create_employee_account for a pair was made and refused with
\* the duplicate-account error; the treasury of a record is funded.
C11_Witness ==
    /\ last.op = "create_employee_account"
    /\ last.err \in DuplicateErrors
    /\ \E ea \in Employees : Treasury(ea).amount = Fund

-----------------------------------------------------------------------------
(* C12: the vested amount of a claim is a function of the time of the      *)
(* claim and of the schedule stored at creation only, and does not         *)
(* decrease from one successful claim on a record to the next.             *)

\* The vested amount of a record with start_time < end_time at time now.
LinearVested(employee, now) ==
    IF now >= employee.end_time THEN employee.total_amount
    ELSE (employee.total_amount * (now - employee.start_time))
             \div (employee.end_time - employee.start_time)

\* The record that the claim step about to be taken is allowed to succeed
\* on: its schedule is in order with start_time < end_time, the cliff has
\* passed, and the product of the interpolation fits the integer width.
Claimable(ea) ==
    LET e == employeeAccounts[ea]
    IN  /\ ValidSchedule(e.start_time, e.cliff_time, e.end_time, e.total_amount)
        /\ e.start_time < e.end_time
        /\ e.cliff_time <= clock
        /\ ~MulOverflows(e.total_amount, clock - e.start_time)

-----------------------------------------------------------------------------
(* C13: a claim made at or after the cliff_time of its record fails with   *)
(* InvalidVestingPeriod exactly when end_time - start_time <= 0: never on  *)
(* a record with end_time > start_time, always on one with                 *)
(* end_time <= start_time.                                                 *)

C13_InvalidPeriodExactly ==
    [][\A ea \in Employees, m \in Mints :
         LET e == employeeAccounts[ea]
         IN  (e.cliff_time <= clock /\ Claim(HonestClaim(ea, m)))
             => (last'.err = "InvalidVestingPeriod"
                     <=> e.end_time - e.start_time <= 0)
      ]_vars

-----------------------------------------------------------------------------
(* C14: a successful claim takes exactly the claimable amount out of the   *)
(* treasury, puts the same amount into the beneficiary's token account and *)
(* adds the same amount to total_withdrawn; so total_withdrawn is what the *)
(* record has received from the treasury, and no instruction but a         *)
(* successful claim changes the balance of a treasury.                     *)

-----------------------------------------------------------------------------
(* C15: the authority a claim gives the transfer out of the treasury is    *)
(* the authority create_vesting_account recorded on the treasury, a        *)
(* program-derived address of the pool and never the beneficiary; so a     *)
(* claim with a positive claimable amount and a sufficient treasury is not *)
(* refused by the token program for the authority.                         *)

C15_TreasuryAuthority ==
    \A ea \in Employees, m \in Mints :
        LET e == employeeAccounts[ea]
            a == HonestClaim(ea, m)
            vesting == vestingAccounts[a.vesting_account]
        IN  /\ transfer_authority(a) = Treasury(ea).authority
            /\ transfer_authority(a) # Wallet(e.beneficiary)
            /\ signer_seeds(vesting) = Treasury(ea).authority
            /\ Treasury(ea).authority
                   \in {VestingPda(vesting.company_name),
                        TreasuryPda(vesting.company_name)}
            /\ ( /\ Claimable(ea)
                 /\ LinearVested(e, clock) > e.total_withdrawn
                 /\ Treasury(ea).amount >= LinearVested(e, clock) - e.total_withdrawn )
               => \A outcome \in ClaimOutcomes(Bank, a, clock) :
                      outcome.err # "OwnerMismatch"

-----------------------------------------------------------------------------
(* C16: a claim whose claimable amount, vested - total_withdrawn, is zero  *)
(* or negative fails with NothingToClaim and makes no transfer; no claim   *)
(* asks for a transfer of an amount that is not positive, nor of a         *)
(* negative amount read as a large unsigned one.                           *)

C16_NothingToClaim ==
    [][\A ea \in Employees, m \in Mints :
         LET e == employeeAccounts[ea]
             a == HonestClaim(ea, m)
             paid == tokenAccounts[a.treasury_token_account].amount
                         - tokenAccounts'[a.treasury_token_account].amount
         IN  Claim(a) =>
                 /\ (Claimable(ea) /\ LinearVested(e, clock) - e.total_withdrawn <= 0)
                    => (last'.err = "NothingToClaim" /\ UNCHANGED accounts)
                 /\ tokenAccounts' # tokenAccounts =>
                        (0 < paid /\ paid <= LinearVested(e, clock) - e.total_withdrawn)
      ]_vars

-----------------------------------------------------------------------------
(* C17: what a claim changes in the vesting and employee accounts is the   *)
(* total_withdrawn of the claimed employee account and nothing else: its   *)
(* total_amount, start_time, cliff_time, end_time, beneficiary and         *)
(* vesting_account, every other employee account and every vesting account *)
(* are after any number of claims what they were at creation.              *)

-----------------------------------------------------------------------------
(* C18: claims on two different employee accounts are independent: a claim *)
(* on one leaves every field of the other as it was, and with a treasury   *)
(* that holds enough for both, the two claims made at one time leave the   *)
(* same accounts and balances in either order.                             *)

\* The accounts a claim can leave behind, over the builds of the program.
After(bank, a) == {Commit(bank, outcome) : outcome \in ClaimOutcomes(bank, a, clock)}

\* The accounts the claim a followed by the claim b can leave behind.
Then(bank, a, b) == UNION {After(mid, b) : mid \in After(bank, a)}

C18_ClaimsIndependent ==
    \A ea \in Employees, eb \in Employees, m \in Mints :
        ea # eb =>
            LET a == HonestClaim(ea, m)
                b == HonestClaim(eb, m)
            IN  /\ \A after \in After(Bank, a) :
                       after.employee[eb] = employeeAccounts[eb]
                /\ Then(Bank, a, b) = Then(Bank, b, a)

=============================================================================
